---- MODULE Spec2Model ----
(***************************************************************************)
(* Model of src/model/pg_response.rs: PgResponse::process_batches groups   *)
(* the flat message stream of a simple-query batch into Tables and         *)
(* CommandComplete units.  One step of the model is one iteration of the   *)
(* `for batch in batches` loop, or the code after the loop.                *)
(***************************************************************************)
EXTENDS Naturals, Sequences, FiniteSets

\* the parameter, the locals, the control point and the return value of
\* process_batches
VARIABLES batches, i, responses, table, prev_columns, pc, result

\* a caller of the public constructors: the Header, the Row and the Vec<Row>
\* it is building, the Table it built from them and that Table's display grid
VARIABLES b_header, b_row, b_rows, b_table, pretty

\* the variables of process_batches
pvars == <<batches, i, responses, table, prev_columns, pc, result>>

\* the variables of the caller of the constructors
bvars == <<b_header, b_row, b_rows, b_table, pretty>>

vars == <<pvars, bvars>>

----------------------------------------------------------------------------
(* Bounds of the explored inputs.                                          *)

\* longest enumerated input Vec<SimpleQueryMessage>
MaxLen == 3
\* largest rows_affected of an enumerated CommandComplete
MaxCount == 1
\* longest Vec (of columns, of values, of rows) a caller of the constructors
\* builds
MaxBuilt == 2

\* column-name sequences of the enumerated rows: no column, one column, two
\* columns and the same two columns in the other order
ColumnLists == {<<>>, <<"a">>, <<"a", "b">>, <<"b", "a">>}
\* field texts of the enumerated rows (a field is one of these or null); the
\* worked examples below bring further texts
Strings == {""}
\* the column name and the values a caller of the constructors uses
BuilderNames == {"c"}
BuilderTexts == {"a", "b"}

----------------------------------------------------------------------------
(* Option<T>: None is the empty tuple, Some(x) the one-element tuple.      *)

None == <<>>

Some(x) == <<x>>

\* Option::unwrap_or
UnwrapOr(opt, default) == IF opt = None THEN default ELSE opt[1]

----------------------------------------------------------------------------
(* The data model, lines 3-65.                                             *)

\* Header::new
HeaderNew(columns) == [columns |-> columns]

\* Row::new
RowNew(values) == [values |-> values]

\* Table::new
TableNew(header, rows) == [header |-> header, rows |-> rows]

\* Header::default()
HeaderDefault == [columns |-> <<>>]

\* Row::default()
RowDefault == [values |-> <<>>]

\* Header::push
HeaderPush(h, col) == [h EXCEPT !.columns = Append(@, col)]

\* Header::set_columns
HeaderSetColumns(h, columns) == [h EXCEPT !.columns = columns]

\* Row::push
RowPush(r, value) == [r EXCEPT !.values = Append(@, value)]

\* Table::default(): Header::default() and no rows
TableDefault == [header |-> [columns |-> <<>>], rows |-> <<>>]

\* PgResponse::Table
PgTable(t) == [tag |-> "Table", table |-> t]

\* PgResponse::CommandComplete
PgCommandComplete(n) == [tag |-> "CommandComplete", count |-> n]

----------------------------------------------------------------------------
(* The input boundary: tokio_postgres::SimpleQueryMessage.  A row carries  *)
(* its columns (each with a name) and, per column, an optional text.       *)

MsgRow(columns, fields) == [kind |-> "Row", columns |-> columns, fields |-> fields]

MsgCommandComplete(n) == [kind |-> "CommandComplete", rows_affected |-> n]

\* any further variant of the non-exhaustive enum
MsgOther == [kind |-> "Other"]

SeqsUpTo(S, n) == UNION {[1..k -> S] : k \in 0..n}

OptStrings == {None} \cup {Some(s) : s \in Strings}

RowMsgs ==
  UNION {{MsgRow(c, f) : f \in [1..Len(c) -> OptStrings]} : c \in ColumnLists}

Msgs == RowMsgs \cup {MsgCommandComplete(n) : n \in 0..MaxCount} \cup {MsgOther}

\* the two worked examples of the specification
Example1 ==
  << MsgRow(<<"a", "b">>, <<Some("1"), Some("2")>>),
     MsgRow(<<"a", "b">>, <<Some("3"), Some("4")>>),
     MsgCommandComplete(2),
     MsgRow(<<"x">>, <<Some("9")>>),
     MsgRow(<<"x">>, <<Some("10")>>) >>

Example2 == << MsgRow(<<"a">>, <<None>>) >>

\* rows whose fields may also be a text that spells the placeholder
PlaceholderRows ==
  UNION {{MsgRow(c, f) : f \in [1..Len(c) -> OptStrings \cup {Some("[null]")}]} :
           c \in ColumnLists}

\* the inputs of one or two such rows
PlaceholderInputs ==
  {<<r>> : r \in PlaceholderRows} \cup {<<r, q>> : r \in PlaceholderRows, q \in PlaceholderRows}

Inputs == SeqsUpTo(Msgs, MaxLen) \cup {Example1, Example2} \cup PlaceholderInputs

----------------------------------------------------------------------------
(* Helpers of process_batches.                                            *)

\* row.columns().iter().map(|c| c.name().to_string()).collect()
ColumnNames(row) == [k \in 1..Len(row.columns) |-> row.columns[k]]

\* row.get(idx), idx counted from 0
RowGet(row, idx) == row.fields[idx + 1]

\* RowValues that shows an empty text as the placeholder too
RowValues_NullForEmpty(row, current_columns) ==
  [k \in 1..Len(current_columns) |->
    IF RowGet(row, k - 1) = Some("") THEN "[null]" ELSE UnwrapOr(RowGet(row, k - 1), "[null]")]

\* RowValues with the empty text in place of the placeholder
RowValues_EmptyForNull(row, current_columns) ==
  [k \in 1..Len(current_columns) |-> UnwrapOr(RowGet(row, k - 1), "")]

\* (0..current_columns.len()).map(|idx| row.get(idx).unwrap_or("[null]").to_string())
RowValues(row, current_columns) ==
  [k \in 1..Len(current_columns) |-> UnwrapOr(RowGet(row, k - 1), "[null]")]

\* InsertedTable that leaves the header of the new table empty
InsertedTable_NoHeader(row) == TableDefault

\* the closure of table.get_or_insert_with: the table created for `row`
InsertedTable(row) == [TableDefault EXCEPT !.header.columns = ColumnNames(row)]

\* SameColumns that compares the names whatever their order
SameColumns_AnyOrder(current_columns, prev) ==
  /\ Len(current_columns) = Len(prev)
  /\ {current_columns[k] : k \in 1..Len(current_columns)} = {prev[k] : k \in 1..Len(prev)}

\* SameColumns that finds the signatures equal only when both are empty
SameColumns_EmptyOnly(current_columns, prev) == current_columns = <<>> /\ prev = <<>>

\* SameColumns that never finds the signatures equal
SameColumns_Never(current_columns, prev) == FALSE

\* SameColumns that compares the number of columns only
SameColumns_CountOnly(current_columns, prev) == Len(current_columns) = Len(prev)

\* current_columns == prev_columns
SameColumns(current_columns, prev) == current_columns = prev

\* PushRow that does not push
PushRow_Drop(t, row_values) == t

\* PushRow that puts the new row first
PushRow_Front(t, row_values) == [t EXCEPT !.rows = <<RowNew(row_values)>> \o @]

\* current_table.rows.push(Row::new(row_values))
PushRow(t, row_values) == [t EXCEPT !.rows = Append(@, RowNew(row_values))]

\* StartTable that drops the row that changed the signature
StartTable_WithoutRow(current_columns, row_values) ==
  TableNew(HeaderNew(current_columns), <<>>)

\* Table::new(Header::new(current_columns.clone()), vec![Row::new(row_values)])
StartTable(current_columns, row_values) ==
  TableNew(HeaderNew(current_columns), <<RowNew(row_values)>>)

\* the locals the loop carries from one message to the next
Locals(resp, tbl, prev) == [responses |-> resp, table |-> tbl, prev_columns |-> prev]

\* RowEffect that puts the table it seals in front of the sealed units
RowEffect_SealFront(resp, tbl, prev, row) ==
  LET current_table == IF tbl = None THEN InsertedTable(row) ELSE tbl[1]
      prev_after_insert == IF tbl = None THEN ColumnNames(row) ELSE prev
      current_columns == ColumnNames(row)
      row_values == RowValues(row, current_columns)
  IN  IF SameColumns(current_columns, prev_after_insert)
      THEN Locals(resp, Some(PushRow(current_table, row_values)), prev_after_insert)
      ELSE Locals(<<PgTable(current_table)>> \o resp,
                  Some(StartTable(current_columns, row_values)),
                  current_columns)

\* RowEffect whose get_or_insert_with closure does not set prev_columns
RowEffect_StalePrev(resp, tbl, prev, row) ==
  LET current_table == IF tbl = None THEN InsertedTable(row) ELSE tbl[1]
      current_columns == ColumnNames(row)
      row_values == RowValues(row, current_columns)
  IN  IF SameColumns(current_columns, prev)
      THEN Locals(resp, Some(PushRow(current_table, row_values)), prev)
      ELSE Locals(Append(resp, PgTable(current_table)),
                  Some(StartTable(current_columns, row_values)),
                  current_columns)

\* SimpleQueryMessage::Row(row) => { .. }: the locals after the arm
RowEffect(resp, tbl, prev, row) ==
  LET current_table == IF tbl = None THEN InsertedTable(row) ELSE tbl[1]
      prev_after_insert == IF tbl = None THEN ColumnNames(row) ELSE prev
      current_columns == ColumnNames(row)
      row_values == RowValues(row, current_columns)
  IN  IF SameColumns(current_columns, prev_after_insert)
      THEN Locals(resp, Some(PushRow(current_table, row_values)), prev_after_insert)
      ELSE Locals(Append(resp, PgTable(current_table)),
                  Some(StartTable(current_columns, row_values)),
                  current_columns)

\* CommandCompleteEffect that seals a default table when none is open
CommandCompleteEffect_DefaultTable(resp, tbl, prev, rows_affected) ==
  Locals(Append(Append(resp, PgTable(IF tbl # None THEN tbl[1] ELSE TableDefault)),
                PgCommandComplete(rows_affected)),
         None, <<>>)

\* CommandCompleteEffect that does not reset prev_columns
CommandCompleteEffect_KeepPrev(resp, tbl, prev, rows_affected) ==
  IF tbl # None
  THEN Locals(Append(Append(resp, PgTable(tbl[1])), PgCommandComplete(rows_affected)),
              None, prev)
  ELSE Locals(Append(resp, PgCommandComplete(rows_affected)), tbl, prev)

\* CommandCompleteEffect that emits the count only when it sealed a table
CommandCompleteEffect_OnlyAfterTable(resp, tbl, prev, rows_affected) ==
  IF tbl # None
  THEN Locals(Append(Append(resp, PgTable(tbl[1])), PgCommandComplete(rows_affected)),
              None, <<>>)
  ELSE Locals(resp, tbl, prev)

\* CommandCompleteEffect that leaves the open table open
CommandCompleteEffect_NoSeal(resp, tbl, prev, rows_affected) ==
  Locals(Append(resp, PgCommandComplete(rows_affected)), tbl, prev)

\* SimpleQueryMessage::CommandComplete(rows_affected) => { .. }: the locals
\* after the arm
CommandCompleteEffect(resp, tbl, prev, rows_affected) ==
  IF tbl # None
  THEN Locals(Append(Append(resp, PgTable(tbl[1])), PgCommandComplete(rows_affected)),
              None, <<>>)
  ELSE Locals(Append(resp, PgCommandComplete(rows_affected)), tbl, prev)

\* FlushResponses that forgets the open table
FlushResponses_NoFlush(resp, tbl) == resp

\* the code after the loop: if let Some(table) = table { responses.push(..) }
FlushResponses(resp, tbl) == IF tbl # None THEN Append(resp, PgTable(tbl[1])) ELSE resp

RECURSIVE Loop(_)
\* the locals after the loop has taken every message of s: Some(locals), or
\* None when a message hit unreachable!()
Loop(s) ==
  IF s = <<>> THEN Some(Locals(<<>>, None, <<>>))
  ELSE LET before == Loop(SubSeq(s, 1, Len(s) - 1))
           batch == s[Len(s)]
       IN  IF before = None THEN None
           ELSE IF batch.kind = "Row"
                THEN Some(RowEffect(before[1].responses, before[1].table,
                                    before[1].prev_columns, batch))
           ELSE IF batch.kind = "CommandComplete"
                THEN Some(CommandCompleteEffect(before[1].responses, before[1].table,
                                                before[1].prev_columns, batch.rows_affected))
           ELSE None

\* process_batches as a function of its argument: Some(responses) when it
\* returns, None when it panics
ProcessBatches(s) ==
  IF Loop(s) = None THEN None
  ELSE Some(FlushResponses(Loop(s)[1].responses, Loop(s)[1].table))

----------------------------------------------------------------------------
(* The state machine.                                                      *)

Init ==
  /\ batches \in Inputs
  /\ i = 0
  /\ responses = <<>>
  /\ table = None
  /\ prev_columns = <<>>
  /\ pc = "loop"
  /\ result = None
  /\ b_header = HeaderDefault
  /\ b_row = RowDefault
  /\ b_rows = <<>>
  /\ b_table = None
  /\ pretty = None

\* the message the loop is about to take
Batch == batches[i + 1]

\* one iteration of the loop on a Row message
RowArm ==
  /\ pc = "loop"
  /\ i < Len(batches)
  /\ Batch.kind = "Row"
  /\ LET after == RowEffect(responses, table, prev_columns, Batch)
     IN  /\ responses' = after.responses
         /\ table' = after.table
         /\ prev_columns' = after.prev_columns
  /\ i' = i + 1
  /\ UNCHANGED <<batches, pc, result>>
  /\ UNCHANGED bvars

\* one iteration of the loop on a CommandComplete message
CommandCompleteArm ==
  /\ pc = "loop"
  /\ i < Len(batches)
  /\ Batch.kind = "CommandComplete"
  /\ LET after == CommandCompleteEffect(responses, table, prev_columns, Batch.rows_affected)
     IN  /\ responses' = after.responses
         /\ table' = after.table
         /\ prev_columns' = after.prev_columns
  /\ i' = i + 1
  /\ UNCHANGED <<batches, pc, result>>
  /\ UNCHANGED bvars

\* UnreachableArm that ignores the message and goes on with the next one
UnreachableArm_Skip ==
  /\ pc = "loop"
  /\ i < Len(batches)
  /\ Batch.kind \notin {"Row", "CommandComplete"}
  /\ i' = i + 1
  /\ UNCHANGED <<batches, responses, table, prev_columns, pc, result>>
  /\ UNCHANGED bvars

\* _ => unreachable!(): the panic unwinds and drops every local
UnreachableArm ==
  /\ pc = "loop"
  /\ i < Len(batches)
  /\ Batch.kind \notin {"Row", "CommandComplete"}
  /\ pc' = "panic"
  /\ responses' = <<>>
  /\ table' = None
  /\ prev_columns' = <<>>
  /\ UNCHANGED <<batches, i, result>>
  /\ UNCHANGED bvars

\* the loop is over: flush the open table and return responses
Return ==
  /\ pc = "loop"
  /\ i = Len(batches)
  /\ responses' = FlushResponses(responses, table)
  /\ result' = Some(responses')
  /\ table' = None
  /\ pc' = "done"
  /\ UNCHANGED <<batches, i, prev_columns>>
  /\ UNCHANGED bvars

Next == RowArm \/ CommandCompleteArm \/ UnreachableArm \/ Return

Spec == Init /\ [][Next]_vars

----------------------------------------------------------------------------
(* Table::as_pretty and the prettytable values it builds.                  *)

\* prettytable::Cell::new(&text)
PrettyCell(text) == [content |-> text]

\* prettytable::Row::from(Vec<String>): one cell per text, in order
PrettyRowFrom(texts) == [cells |-> [k \in 1..Len(texts) |-> PrettyCell(texts[k])]]

\* prettytable::Table::new()
PrettyTableNew == [rows |-> <<>>]

\* prettytable::Table::add_row
PrettyAddRow(grid, line) == [grid EXCEPT !.rows = Append(@, line)]

RECURSIVE PrettyAddRows(_, _)
\* self.rows.iter().map(|row| &row.values).for_each(|row| { table.add_row(row.into()); })
PrettyAddRows(grid, rows) ==
  IF rows = <<>> THEN grid
  ELSE PrettyAddRows(PrettyAddRow(grid, PrettyRowFrom(rows[1].values)), Tail(rows))

\* AsPretty that adds the rows and then the header
AsPretty_HeaderLast(t) ==
  PrettyAddRow(PrettyAddRows(PrettyTableNew, t.rows), PrettyRowFrom(t.header.columns))

\* Table::as_pretty
AsPretty(t) ==
  PrettyAddRows(PrettyAddRow(PrettyTableNew, PrettyRowFrom(t.header.columns)), t.rows)

----------------------------------------------------------------------------
(* A caller of the public constructors and mutators, as the test           *)
(* `prettytable` is one: it builds a Header, Rows and a Vec<Row>, makes a   *)
(* Table of them and renders it.                                           *)

BuilderInit ==
  /\ batches = <<>>
  /\ i = 0
  /\ responses = <<>>
  /\ table = None
  /\ prev_columns = <<>>
  /\ pc = "caller"
  /\ result = None
  /\ b_header = HeaderDefault
  /\ b_row = RowDefault
  /\ b_rows = <<>>
  /\ b_table = None
  /\ pretty = None

\* Header::new(columns)
HeaderNewCall ==
  /\ pc = "caller" /\ b_table = None
  /\ \E columns \in SeqsUpTo(BuilderNames, MaxBuilt) : b_header' = HeaderNew(columns)
  /\ UNCHANGED <<b_row, b_rows, b_table, pretty>>
  /\ UNCHANGED pvars

\* header.push(col)
HeaderPushCall ==
  /\ pc = "caller" /\ b_table = None
  /\ Len(b_header.columns) < MaxBuilt
  /\ \E col \in BuilderNames : b_header' = HeaderPush(b_header, col)
  /\ UNCHANGED <<b_row, b_rows, b_table, pretty>>
  /\ UNCHANGED pvars

\* header.set_columns(columns)
HeaderSetColumnsCall ==
  /\ pc = "caller" /\ b_table = None
  /\ \E columns \in SeqsUpTo(BuilderNames, MaxBuilt) :
       b_header' = HeaderSetColumns(b_header, columns)
  /\ UNCHANGED <<b_row, b_rows, b_table, pretty>>
  /\ UNCHANGED pvars

\* Row::new(values)
RowNewCall ==
  /\ pc = "caller" /\ b_table = None
  /\ \E values \in SeqsUpTo(BuilderTexts, MaxBuilt) : b_row' = RowNew(values)
  /\ UNCHANGED <<b_header, b_rows, b_table, pretty>>
  /\ UNCHANGED pvars

\* row.push(value)
RowPushCall ==
  /\ pc = "caller" /\ b_table = None
  /\ Len(b_row.values) < MaxBuilt
  /\ \E value \in BuilderTexts : b_row' = RowPush(b_row, value)
  /\ UNCHANGED <<b_header, b_rows, b_table, pretty>>
  /\ UNCHANGED pvars

\* rows.push(row): the row is moved into the Vec<Row>
RowsPushCall ==
  /\ pc = "caller" /\ b_table = None
  /\ Len(b_rows) < MaxBuilt
  /\ b_rows' = Append(b_rows, b_row)
  /\ b_row' = RowDefault
  /\ UNCHANGED <<b_header, b_table, pretty>>
  /\ UNCHANGED pvars

\* Table::new(header, rows): the header and the rows are moved into the Table
TableNewCall ==
  /\ pc = "caller" /\ b_table = None
  /\ b_table' = Some(TableNew(b_header, b_rows))
  /\ b_header' = HeaderDefault
  /\ b_rows' = <<>>
  /\ UNCHANGED <<b_row, pretty>>
  /\ UNCHANGED pvars

\* table.as_pretty(): takes &self
AsPrettyCall ==
  /\ pc = "caller" /\ b_table # None /\ pretty = None
  /\ pretty' = Some(AsPretty(b_table[1]))
  /\ UNCHANGED <<b_header, b_row, b_rows, b_table>>
  /\ UNCHANGED pvars

BuilderNext ==
  \/ HeaderNewCall \/ HeaderPushCall \/ HeaderSetColumnsCall
  \/ RowNewCall \/ RowPushCall \/ RowsPushCall
  \/ TableNewCall \/ AsPrettyCall

BuilderSpec == BuilderInit /\ [][BuilderNext]_vars

----------------------------------------------------------------------------
(* Vocabulary of the properties.  Nothing below is used by the actions.    *)

\* process_batches has returned
Returned == pc = "done"

\* the returned Vec<PgResponse>
Output == result[1]

IsRow(m) == m.kind = "Row"

IsComplete(m) == m.kind = "CommandComplete"

IsTable(u) == u.tag = "Table"

\* a field as the output is to show it
Shown(field) == IF field = <<>> THEN "[null]" ELSE field[1]

\* the values a Row message is to contribute
ShownRow(m) == [values |-> [k \in 1..Len(m.columns) |-> Shown(m.fields[k])]]

\* the indices 1..n in order
Indices(n) == [k \in 1..n |-> k]

\* the message at k is a Row that opens a run: no Row with the same column
\* names stands right before it
OpensRun(s, k) ==
  /\ IsRow(s[k])
  /\ (k = 1 \/ ~IsRow(s[k - 1]) \/ s[k - 1].columns # s[k].columns)

\* the last index of the run opened at k
RunEnd(s, k) ==
  CHOOSE e \in k..Len(s) :
    /\ \A j \in (k + 1)..e : IsRow(s[j]) /\ ~OpensRun(s, j)
    /\ (e = Len(s) \/ ~IsRow(s[e + 1]) \/ OpensRun(s, e + 1))

\* the unit the reference grouping derives from index k of s
ReferenceUnit(s, k) ==
  IF IsRow(s[k])
  THEN [tag |-> "Table",
        table |-> [header |-> [columns |-> s[k].columns],
                   rows |-> [j \in 1..(RunEnd(s, k) - k + 1) |-> ShownRow(s[k + j - 1])]]]
  ELSE [tag |-> "CommandComplete", count |-> s[k].rows_affected]

\* the reference grouping: one unit per run and per CommandComplete message,
\* in input order
ReferenceGrouping(s) ==
  LET starts == SelectSeq(Indices(Len(s)), LAMBDA k : IsComplete(s[k]) \/ OpensRun(s, k))
  IN  [n \in 1..Len(starts) |-> ReferenceUnit(s, starts[n])]

Expected1 ==
  << [tag |-> "Table",
      table |-> [header |-> [columns |-> <<"a", "b">>],
                 rows |-> << [values |-> <<"1", "2">>], [values |-> <<"3", "4">>] >>]],
     [tag |-> "CommandComplete", count |-> 2],
     [tag |-> "Table",
      table |-> [header |-> [columns |-> <<"x">>],
                 rows |-> << [values |-> <<"9">>], [values |-> <<"10">>] >>]] >>

\* C1: whenever process_batches returns, it returns the reference grouping of
\* its input: one Table per maximal run of consecutive Row messages with
\* identical column names, one CommandComplete unit per CommandComplete
\* message, in input order; the five-message example yields its three units.
C1_ReferenceGrouping ==
  Returned =>
    /\ Output = ReferenceGrouping(batches)
    /\ (batches = Example1 => Output = Expected1)

\* the five-message example has been processed and returned
C1_Witness == Returned /\ batches = Example1 /\ Len(Output) = 3

\* the number of Row messages of s
RowMessages(s) == Cardinality({k \in 1..Len(s) : IsRow(s[k])})

RECURSIVE RowsIn(_, _)
\* the number of rows in the Tables among the first u units of out
RowsIn(out, u) ==
  IF u = 0 THEN 0
  ELSE RowsIn(out, u - 1) + (IF IsTable(out[u]) THEN Len(out[u].table.rows) ELSE 0)

\* C2: the rows of all returned Tables number as many as the Row messages of
\* the input.
C2_RowCountPreserved ==
  Returned => RowsIn(Output, Len(Output)) = RowMessages(batches)

\* a returned input in which a row changed the signature of the open table
C2_Witness ==
  /\ Returned
  /\ RowMessages(batches) = 3
  /\ \E k \in 2..Len(batches) :
       IsRow(batches[k]) /\ IsRow(batches[k - 1]) /\ batches[k].columns # batches[k - 1].columns

\* the counts of the CommandComplete messages of s, in order
CompleteCounts(s) ==
  LET cs == SelectSeq(s, IsComplete) IN [n \in 1..Len(cs) |-> cs[n].rows_affected]

\* the counts of the CommandComplete units of out, in order
UnitCounts(out) ==
  LET us == SelectSeq(out, LAMBDA u : ~IsTable(u)) IN [n \in 1..Len(us) |-> us[n].count]

\* C3: the CommandComplete units of the output carry, in order, the counts of
\* the CommandComplete messages of the input, one unit per message.
C3_CompletionsPreserved ==
  Returned => UnitCounts(Output) = CompleteCounts(batches)

\* a returned input whose first CommandComplete seals nothing and whose second
\* one, with another count, seals a table
C3_Witness ==
  /\ Returned
  /\ Len(batches) = 3
  /\ IsComplete(batches[1]) /\ IsRow(batches[2]) /\ IsComplete(batches[3])
  /\ batches[1].rows_affected # batches[3].rows_affected

RECURSIVE Flatten(_)
\* the output with each Table replaced by its rows, each under the Table's
\* header
Flatten(out) ==
  IF out = <<>> THEN <<>>
  ELSE LET u == out[1]
       IN  (IF IsTable(u)
            THEN [r \in 1..Len(u.table.rows) |->
                   [kind |-> "Row", columns |-> u.table.header.columns,
                    values |-> u.table.rows[r].values]]
            ELSE << [kind |-> "CommandComplete", count |-> u.count] >>)
           \o Flatten(Tail(out))

\* the input with every null field replaced by the placeholder
Normalised(s) ==
  [k \in 1..Len(s) |->
    IF IsRow(s[k])
    THEN [kind |-> "Row", columns |-> s[k].columns, values |-> ShownRow(s[k]).values]
    ELSE [kind |-> "CommandComplete", count |-> s[k].rows_affected]]

\* C4: the flattened output is the input, position by position, with null
\* fields replaced by the placeholder.
C4_ArrivalOrder ==
  Returned => Flatten(Output) = Normalised(batches)

\* a returned input of rows and completions in which order is visible
C4_Witness ==
  /\ Returned
  /\ Len(batches) = 3
  /\ IsRow(batches[1]) /\ IsComplete(batches[2]) /\ IsRow(batches[3])
  /\ batches[1] # batches[3]
  /\ \E k \in 1..Len(batches[1].fields) : batches[1].fields[k] = <<>>

\* the number of Row messages among the first k messages of s
RowOrdinal(s, k) == Cardinality({j \in 1..k : IsRow(s[j])})

\* the number of CommandComplete messages among the first k messages of s
CompleteOrdinal(s, k) == Cardinality({j \in 1..k : IsComplete(s[j])})

\* the units of out that hold its n-th row, counting rows in output order
UnitsOfRow(out, n) ==
  {u \in 1..Len(out) : IsTable(out[u]) /\ RowsIn(out, u - 1) < n /\ n <= RowsIn(out, u)}

\* the k-th message of s, a Row, has its place in out
Placed(s, out, k) == UnitsOfRow(out, RowOrdinal(s, k)) # {}

\* the index in out of the Table that holds the row of message k
UnitOf(s, out, k) == CHOOSE u \in UnitsOfRow(out, RowOrdinal(s, k)) : TRUE

\* the position of that row within its Table
PlaceOf(s, out, k) == RowOrdinal(s, k) - RowsIn(out, UnitOf(s, out, k) - 1)

\* the row of message k as the output holds it
RowOf(s, out, k) == out[UnitOf(s, out, k)].table.rows[PlaceOf(s, out, k)]

\* the header of the Table that holds the row of message k
HeaderOf(s, out, k) == out[UnitOf(s, out, k)].table.header

\* the units of out that are its n-th CommandComplete unit
UnitsOfComplete(out, n) ==
  {u \in 1..Len(out) :
     /\ ~IsTable(out[u])
     /\ Cardinality({v \in 1..u : ~IsTable(out[v])}) = n}

\* every Row message of s has its place in out
AllPlaced(s, out) == \A k \in 1..Len(s) : IsRow(s[k]) => Placed(s, out, k)

\* C5: two adjacent Row messages with identical column names land in the same
\* Table, the earlier row right before the later one.
C5_SignatureGrouping ==
  Returned =>
    /\ AllPlaced(batches, Output)
    /\ \A k \in 1..(Len(batches) - 1) :
         (IsRow(batches[k]) /\ IsRow(batches[k + 1])
            /\ batches[k].columns = batches[k + 1].columns)
         => /\ UnitOf(batches, Output, k) = UnitOf(batches, Output, k + 1)
            /\ PlaceOf(batches, Output, k) + 1 = PlaceOf(batches, Output, k + 1)
            /\ RowOf(batches, Output, k) = ShownRow(batches[k])
            /\ RowOf(batches, Output, k + 1) = ShownRow(batches[k + 1])

\* a returned input with two adjacent rows of the same two columns and
\* different fields
C5_Witness ==
  /\ Returned
  /\ \E k \in 1..(Len(batches) - 1) :
       /\ IsRow(batches[k]) /\ IsRow(batches[k + 1])
       /\ batches[k].columns = batches[k + 1].columns
       /\ Len(batches[k].columns) = 2
       /\ batches[k].fields # batches[k + 1].fields
       /\ UnitOf(batches, Output, k) = UnitOf(batches, Output, k + 1)

\* p is the Row message that immediately precedes the Row message k: no Row
\* message lies between them
PrecedingRow(s, p, k) ==
  /\ p < k
  /\ IsRow(s[p]) /\ IsRow(s[k])
  /\ \A j \in (p + 1)..(k - 1) : ~IsRow(s[j])

\* C6: a Row message whose column names differ from those of the Row message
\* immediately preceding it is the first row of a Table with its own column
\* names as header, and the Table of the preceding row stands earlier in the
\* output.
C6_SignatureSplit ==
  Returned =>
    /\ AllPlaced(batches, Output)
    /\ \A k \in 1..Len(batches) : \A p \in 1..Len(batches) :
         (PrecedingRow(batches, p, k) /\ batches[p].columns # batches[k].columns)
         => /\ PlaceOf(batches, Output, k) = 1
            /\ HeaderOf(batches, Output, k).columns = batches[k].columns
            /\ RowOf(batches, Output, k) = ShownRow(batches[k])
            /\ UnitOf(batches, Output, p) < UnitOf(batches, Output, k)

\* a returned input in which a row follows a row of other column names
\* directly, with no CommandComplete between them
C6_Witness ==
  /\ Returned
  /\ \E k \in 2..Len(batches) :
       /\ IsRow(batches[k - 1]) /\ IsRow(batches[k])
       /\ batches[k - 1].columns # batches[k].columns
       /\ UnitOf(batches, Output, k) = UnitOf(batches, Output, k - 1) + 1

\* C7: two Row messages with a CommandComplete message between them are in
\* different Tables, and a CommandComplete message that follows a Row message
\* has, right before its unit, the Table whose last row is that row.
C7_CompleteTerminatesTable ==
  Returned =>
    /\ AllPlaced(batches, Output)
    /\ \A p \in 1..Len(batches) : \A k \in 1..Len(batches) :
         (p < k /\ IsRow(batches[p]) /\ IsRow(batches[k])
            /\ \E c \in (p + 1)..(k - 1) : IsComplete(batches[c]))
         => UnitOf(batches, Output, p) # UnitOf(batches, Output, k)
    /\ \A c \in 2..Len(batches) :
         (IsComplete(batches[c]) /\ IsRow(batches[c - 1]))
         => /\ UnitsOfComplete(Output, CompleteOrdinal(batches, c))
                 = {UnitOf(batches, Output, c - 1) + 1}
            /\ PlaceOf(batches, Output, c - 1)
                 = Len(Output[UnitOf(batches, Output, c - 1)].table.rows)

\* a returned input with two rows of the same column names on either side of
\* a CommandComplete
C7_Witness ==
  /\ Returned
  /\ Len(batches) = 3
  /\ IsRow(batches[1]) /\ IsComplete(batches[2]) /\ IsRow(batches[3])
  /\ batches[1].columns = batches[3].columns
  /\ Len(Output) = 3

\* the index of the first message of the trailing rows of s: every message
\* from there on is a Row
TrailStart(s) ==
  CHOOSE t \in 1..Len(s) :
    /\ \A j \in t..Len(s) : IsRow(s[j])
    /\ (t = 1 \/ ~IsRow(s[t - 1]))

\* the index of the first row of the last run of s
LastRunStart(s) ==
  CHOOSE t \in 1..Len(s) : OpensRun(s, t) /\ \A j \in (t + 1)..Len(s) : ~OpensRun(s, j)

C9_TableShape ==
  Returned =>
    /\ \A u \in 1..Len(Output) :
         IsTable(Output[u]) =>
           \A r \in 1..Len(Output[u].table.rows) :
             Len(Output[u].table.rows[r].values) = Len(Output[u].table.header.columns)
    /\ AllPlaced(batches, Output)
    /\ \A k \in 1..Len(batches) :
         IsRow(batches[k]) => HeaderOf(batches, Output, k).columns = batches[k].columns

\* a returned Table of two rows under a header of two columns
C9_Witness ==
  /\ Returned
  /\ \E u \in 1..Len(Output) :
       /\ IsTable(Output[u])
       /\ Len(Output[u].table.header.columns) = 2
       /\ Len(Output[u].table.rows) = 2

Expected2 ==
  << [tag |-> "Table",
      table |-> [header |-> [columns |-> <<"a">>],
                 rows |-> << [values |-> <<"[null]">>] >>]] >>

\* C10: every field of a Row message is in the returned row at its own column
\* position, as it is when present and as "[null]" when null; a panic is due
\* to a message that is neither Row nor CommandComplete, never to a null; the
\* one-null example yields its one-cell Table.
C10_NullNormalisation ==
  /\ Returned =>
       /\ AllPlaced(batches, Output)
       /\ \A k \in 1..Len(batches) :
            IsRow(batches[k]) =>
              /\ Len(RowOf(batches, Output, k).values) = Len(batches[k].fields)
              /\ \A c \in 1..Len(batches[k].fields) :
                   RowOf(batches, Output, k).values[c]
                     = (IF batches[k].fields[c] = <<>> THEN "[null]"
                        ELSE batches[k].fields[c][1])
       /\ (batches = Example2 => Output = Expected2)
  /\ pc = "panic" => (~IsRow(batches[i + 1]) /\ ~IsComplete(batches[i + 1]))

\* a returned row of two columns, the first null and the second present
C10_Witness ==
  /\ Returned
  /\ \E k \in 1..Len(batches) :
       /\ IsRow(batches[k])
       /\ Len(batches[k].fields) = 2
       /\ batches[k].fields[1] = <<>>
       /\ batches[k].fields[2] = <<"">>
       /\ RowOf(batches, Output, k).values = <<"[null]", "">>

\* s with field c of its k-th message, a Row, replaced by f
WithField(s, k, c, f) == [s EXCEPT ![k].fields[c] = f]

\* the places (message, column) of s whose field is f
FieldsEqual(s, f) ==
  {kc \in (1..Len(s)) \X (1..2) :
     /\ IsRow(s[kc[1]])
     /\ kc[2] <= Len(s[kc[1]].fields)
     /\ s[kc[1]].fields[kc[2]] = f}

\* C11 as stated: an input with an empty text and the same input with null
\* in its place give the same output.
C11_EmptyEqualsNull ==
  Returned =>
    \A kc \in FieldsEqual(batches, <<"">>) :
      ProcessBatches(WithField(batches, kc[1], kc[2], <<>>)) = result

\* C11 as amended: the placeholder collapses null with the text "[null]", not
\* with the empty text: an input with the text "[null]" and the same input
\* with null in its place give the same output, while an input with an empty
\* text and the same input with null in its place give different outputs.
C11_PlaceholderEqualsNull ==
  Returned =>
    /\ \A kc \in FieldsEqual(batches, <<"[null]">>) :
         ProcessBatches(WithField(batches, kc[1], kc[2], <<>>)) = result
    /\ \A kc \in FieldsEqual(batches, <<"">>) :
         ProcessBatches(WithField(batches, kc[1], kc[2], <<>>)) # result

\* a returned input with a field that spells the placeholder next to an empty
\* one
C11_Witness ==
  /\ Returned
  /\ FieldsEqual(batches, <<"[null]">>) # {}
  /\ FieldsEqual(batches, <<"">>) # {}
  /\ \E kc \in FieldsEqual(batches, <<"[null]">>) :
       RowOf(batches, Output, kc[1]).values[kc[2]] = "[null]"

\* the names of a column list, as a set
NameSet(c) == {c[k] : k \in 1..Len(c)}

\* the loop is about to take a Row message whose column names are those of
\* the open table's header in another order
TakesPermutedRow ==
  /\ pc = "loop"
  /\ i < Len(batches)
  /\ IsRow(Batch)
  /\ table # None
  /\ NameSet(Batch.columns) = NameSet(table[1].header.columns)
  /\ Len(Batch.columns) = Len(table[1].header.columns)
  /\ Batch.columns # table[1].header.columns

\* C12: a Row message whose column names are the names of the open table's
\* header in a different order seals the open table, which becomes the next
\* unit of the output unchanged, and starts a new Table with the row's own
\* column names as header and the row as its only row.
C12_ColumnOrderMatters ==
  [][(TakesPermutedRow /\ i' = i + 1) =>
       /\ responses' = Append(responses, PgTable(table[1]))
       /\ table' # None
       /\ table'[1].header.columns = Batch.columns
       /\ table'[1].rows = <<ShownRow(Batch)>>]_vars

\* the loop has just taken a row of columns b, a while a table of columns
\* a, b was open
C12_Witness ==
  /\ pc = "loop"
  /\ i >= 2
  /\ IsRow(batches[i - 1]) /\ IsRow(batches[i])
  /\ batches[i - 1].columns = <<"a", "b">>
  /\ batches[i].columns = <<"b", "a">>
  /\ table # None
  /\ table[1].header.columns = <<"b", "a">>
  /\ responses # <<>>
  /\ IsTable(responses[Len(responses)])
  /\ responses[Len(responses)].table.header.columns = <<"a", "b">>

\* the loop is about to take a CommandComplete message that is the first
\* message or follows another CommandComplete message
TakesZeroRowComplete ==
  /\ pc = "loop"
  /\ i < Len(batches)
  /\ IsComplete(Batch)
  /\ (i = 0 \/ IsComplete(batches[i]))

\* C13: a CommandComplete message that is the first message or immediately
\* follows another CommandComplete message adds exactly one unit, its count,
\* and no Table; and an input without a Row message yields an output without
\* a Table.
C13_ZeroRowsNoTable ==
  /\ [][(TakesZeroRowComplete /\ i' = i + 1) =>
          responses' = Append(responses,
                              [tag |-> "CommandComplete", count |-> Batch.rows_affected])]_vars
  /\ [](Returned /\ RowMessages(batches) = 0 =>
          \A u \in 1..Len(Output) : ~IsTable(Output[u]))

\* a returned input of two or more CommandComplete messages and nothing else
C13_Witness ==
  /\ Returned
  /\ Len(batches) >= 2
  /\ \A k \in 1..Len(batches) : IsComplete(batches[k])
  /\ Len(Output) = Len(batches)

\* the message is neither Row nor CommandComplete
IsOther(m) == ~IsRow(m) /\ ~IsComplete(m)

\* the indices of the messages of s that are neither Row nor CommandComplete
Others(s) == {k \in 1..Len(s) : IsOther(s[k])}

\* C14: on reaching a message that is neither Row nor CommandComplete the
\* loop panics; the loop never gets past such a message, and with such a
\* message in the input no result is ever returned, and after the panic
\* nothing is left of the units sealed before it.
C14_OtherIsFatal ==
  /\ [][(pc = "loop" /\ i < Len(batches) /\ IsOther(Batch)) =>
          (pc' = "panic" /\ result' = <<>>)]_vars
  /\ [](/\ Others(batches) # {} => result = <<>> /\ ~Returned
        /\ \A k \in Others(batches) : i < k
        /\ pc = "panic" => (IsOther(batches[i + 1]) /\ responses = <<>> /\ table = <<>>))

\* the panic has come after a Table and a CommandComplete unit had been
\* sealed
C14_Witness ==
  /\ pc = "panic"
  /\ i = 2
  /\ IsRow(batches[1]) /\ IsComplete(batches[2])
  /\ result = <<>>

\* C15: between two messages, prev_columns is the header of the open table
\* when a table is open and is empty when none is.
C15_SignatureTracksTable ==
  pc = "loop" =>
    /\ table # <<>> => prev_columns = table[1].header.columns
    /\ table = <<>> => prev_columns = <<>>

\* the loop has taken a row of some columns and then two CommandComplete
\* messages, the second with no table open
C15_Witness ==
  /\ pc = "loop"
  /\ i = 3
  /\ IsRow(batches[1]) /\ batches[1].columns # <<>>
  /\ IsComplete(batches[2]) /\ IsComplete(batches[3])
  /\ table = <<>>
  /\ prev_columns = <<>>

\* every Table among the units of out has a row
NoEmptyTable(out) ==
  \A u \in 1..Len(out) : IsTable(out[u]) => Len(out[u].table.rows) >= 1

\* C16: no sealed or returned Table is empty, and right after a Row message
\* a table is open and has a row.
C16_NoEmptyTable ==
  /\ NoEmptyTable(responses)
  /\ Returned => NoEmptyTable(Output)
  /\ table # <<>> => Len(table[1].rows) >= 1
  /\ (pc = "loop" /\ i > 0 /\ IsRow(batches[i])) => table # <<>>

\* the loop has taken a row without columns as its first message
C16_Witness ==
  /\ pc = "loop"
  /\ i = 1
  /\ IsRow(batches[1]) /\ batches[1].columns = <<>>
  /\ table = << [header |-> [columns |-> <<>>], rows |-> << [values |-> <<>>] >>] >>

\* two Tables next to each other in out have different headers
AdjacentTablesDiffer(out) ==
  \A u \in 1..(Len(out) - 1) :
    (IsTable(out[u]) /\ IsTable(out[u + 1])) => out[u].table.header # out[u + 1].table.header

\* C17: two Tables with no CommandComplete unit between them have different
\* headers, among the sealed units, between the last sealed Table and the
\* open table, and in the returned output.
C17_AdjacentTablesDiffer ==
  /\ AdjacentTablesDiffer(responses)
  /\ Returned => AdjacentTablesDiffer(Output)
  /\ (table # <<>> /\ responses # <<>> /\ IsTable(responses[Len(responses)]))
       => responses[Len(responses)].table.header # table[1].header

\* a returned output of three Tables and no CommandComplete unit
C17_Witness ==
  /\ Returned
  /\ Len(Output) = 3
  /\ \A u \in 1..3 : IsTable(Output[u])
  /\ Output[1].table.header = Output[3].table.header

\* a is a prefix of b
IsPrefix(a, b) == Len(a) <= Len(b) /\ SubSeq(b, 1, Len(a)) = a

\* the output for the first n messages of s, without the Table flushed at the
\* end when the n-th message is a Row
SealedOutput(s, n) ==
  LET out == ProcessBatches(SubSeq(s, 1, n))[1]
  IN  IF n > 0 /\ IsRow(s[n]) THEN SubSeq(out, 1, Len(out) - 1) ELSE out

\* C18: a step that takes a Row or CommandComplete message, or that returns,
\* keeps every sealed unit where it is and as it is, and adds at most two;
\* at most one table is open at any time; and the output for a prefix of the
\* input, without its flushed final Table when the prefix ends with a Row, is
\* a prefix of the output for the input.
C18_AppendOnly ==
  /\ [][(pc = "loop" /\ pc' # "panic") =>
          /\ IsPrefix(responses, responses')
          /\ Len(responses') <= Len(responses) + 2
          /\ (pc' = "done" => result' = <<responses'>>)]_vars
  /\ [](/\ Len(table) <= 1
        /\ Returned => \A n \in 0..Len(batches) : IsPrefix(SealedOutput(batches, n), Output))

\* a returned input of a row, a CommandComplete and a row of other columns:
\* the CommandComplete added two units and the last Table was flushed
C18_Witness ==
  /\ Returned
  /\ Len(batches) = 3
  /\ IsRow(batches[1]) /\ IsComplete(batches[2]) /\ IsRow(batches[3])
  /\ batches[1].columns # batches[3].columns
  /\ Len(Output) = 3
  /\ SealedOutput(batches, 3) = SubSeq(Output, 1, 2)

\* C19: every Table built through the public constructors and mutators has
\* rows of exactly as many values as its header has columns.
C19_BuiltTableShape ==
  b_table # <<>> =>
    \A r \in 1..Len(b_table[1].rows) :
      Len(b_table[1].rows[r].values) = Len(b_table[1].header.columns)

\* the texts of the cells of a line of the grid, in order
LineTexts(line) == [k \in 1..Len(line.cells) |-> line.cells[k].content]

\* C20: the grid of a Table has one line more than the Table has rows, its
\* first line is the header's column names in order, line r + 1 is the values
\* of row r in order, and the call leaves the Table as it was.
C20_PrettyGrid ==
  /\ [][pretty' # pretty => b_table' = b_table]_vars
  /\ [](pretty # <<>> =>
          /\ b_table # <<>>
          /\ Len(pretty[1].rows) = Len(b_table[1].rows) + 1
          /\ LineTexts(pretty[1].rows[1]) = b_table[1].header.columns
          /\ \A r \in 1..Len(b_table[1].rows) :
               LineTexts(pretty[1].rows[r + 1]) = b_table[1].rows[r].values)

\* the grid of a Table of two columns and two different rows, the first of
\* two different values
C20_Witness ==
  /\ pretty # <<>>
  /\ b_table # <<>>
  /\ b_table[1].header.columns = <<"c", "c">>
  /\ Len(b_table[1].rows) = 2
  /\ b_table[1].rows[1].values = <<"b", "a">>
  /\ b_table[1].rows[2].values = <<"a">>
  /\ Len(pretty[1].rows) = 3

====
